---- MODULE Spec2Model ----
(***************************************************************************)
(* Model of transcribe_demo.py: the capture callback that feeds a queue,   *)
(* the non-blocking queue drain, and the poll loop of main() with its      *)
(* phrase timer, transcript, console rendering and output file.            *)
(*                                                                         *)
(* Text is a sequence of one-character strings, audio is a sequence of     *)
(* bytes; every byte of the n-th pushed chunk carries the value n, so      *)
(* order, loss and duplication of chunks are visible in the bytes.         *)
(***************************************************************************)
EXTENDS Integers, Sequences, FiniteSets, TLC

\* ---------------------------------------------------------------- bounds
MaxPush == 3          \* chunks the capture thread puts in one run
MaxTime == 4          \* last reading of the wall clock
MaxChunkSamples == 1  \* samples in one chunk
MaxClearCalls == 4    \* calls of clear_console made on its own

\* ------------------------------------------------------- program constants
CONSOLE_CLEAR_FALLBACK_LINES == 50
SAMPLE_WIDTH == 2     \* bytes of one int16 sample

\* ------------------------------------------------------------ Optional[T]
None == [tag |-> "None"]
Some(v) == [tag |-> "Some", val |-> v]

\* --------------------------------------------------------- input domains
EnergyThresholds == {-1, 0}
RecordTimeouts == {-1, 0, 1}
PhraseTimeouts == {-1, 0, 1, 2}
ChunkLens == { SAMPLE_WIDTH * k : k \in 0..MaxChunkSamples }
RawTexts == { <<>>, <<" ">>, <<" ", "a">>, <<"b", " ">> }
TranscribeResults == [text : RawTexts, has_segments : BOOLEAN]

MakeChunk(n, len) == [i \in 1..len |-> n]

\* ----------------------------------------------------------- str methods
IsSpace(c) == c \in {" ", "\n"}

RECURSIVE LStrip(_)
LStrip(s) ==
    IF s = <<>> THEN <<>>
    ELSE IF IsSpace(Head(s)) THEN LStrip(Tail(s)) ELSE s

RECURSIVE RStrip(_)
RStrip(s) ==
    IF s = <<>> THEN <<>>
    ELSE IF IsSpace(s[Len(s)]) THEN RStrip(SubSeq(s, 1, Len(s) - 1)) ELSE s

Strip(s) == RStrip(LStrip(s))

RECURSIVE Join(_, _)
Join(sep, lines) ==
    IF lines = <<>> THEN <<>>
    ELSE IF Len(lines) = 1 THEN lines[1]
    ELSE lines[1] \o sep \o Join(sep, Tail(lines))

RECURSIVE ConcatBytes(_)
ConcatBytes(list) ==
    IF list = <<>> THEN <<>> ELSE Head(list) \o ConcatBytes(Tail(list))

NonBlankLines(lines) == SelectSeq(lines, LAMBDA line : Strip(line) # <<>>)

FileText(lines) == Join(<<"\n">>, NonBlankLines(lines))

\* ------------------------------------------------------ validate_arguments
ValidateError_ZeroAllowed(a) ==
    IF a.energy_threshold < 0 THEN Some("Energy threshold must be non-negative")
    ELSE IF a.record_timeout < 0 THEN Some("Record timeout must be positive")
    ELSE IF a.phrase_timeout < 0 THEN Some("Phrase timeout must be positive")
    ELSE None

ValidateError(a) ==
    IF a.energy_threshold < 0 THEN Some("Energy threshold must be non-negative")
    ELSE IF a.record_timeout <= 0 THEN Some("Record timeout must be positive")
    ELSE IF a.phrase_timeout <= 0 THEN Some("Phrase timeout must be positive")
    ELSE None

\* ------------------------------------------------- pieces of the poll loop
PhraseComplete_AtTimeout(pt, t, timeout) == pt # None /\ t - pt.val >= timeout

PhraseComplete(pt, t, timeout) == pt # None /\ t - pt.val > timeout

DrainResult_NeverNone(list) == Some(ConcatBytes(list))

DrainResult_FirstOnly(list) == IF list # <<>> THEN Some(Head(list)) ELSE None

DrainResult(list) == IF list # <<>> THEN Some(ConcatBytes(list)) ELSE None

Falsy(audio) == audio = None \/ audio.val = <<>>

ConvertFails(bytes) == Len(bytes) % SAMPLE_WIDTH # 0

FormatText(t, show, res) ==
    IF show /\ res.has_segments THEN t \o <<" ", "%">> ELSE t

UpdateTranscription_First(tr, complete, t) ==
    IF complete THEN Append(tr, t) ELSE [tr EXCEPT ![1] = t]

UpdateTranscription(tr, complete, t) ==
    IF complete THEN Append(tr, t) ELSE [tr EXCEPT ![Len(tr)] = t]

WriteFile_Append(old, lines) ==
    Some((IF old = None THEN <<>> ELSE old.val) \o FileText(lines))

WriteFile(old, lines) == Some(FileText(lines))

QueueEmpty(q) == q = <<>>

ListAppend_Front(list, x) == <<x>> \o list

ListAppend(list, x) == Append(list, x)

NextPhraseTime_Once(pt, t) == IF pt = None THEN Some(t) ELSE pt

NextPhraseTime(pt, t) == Some(t)

InitTranscription_Empty == <<>>

InitTranscription == << <<>> >>

VARIABLES
    pc,               \* position of the main thread
    caller,           \* who calls process_audio_queue: "main" or "test"
    args,             \* parsed command line and platform
    exit_code,        \* None while running, Some(n) after sys.exit(n)
    acquired,         \* objects created / resources acquired so far
    listening,        \* background capture running
    pushed,           \* history: every chunk put on the queue, in put order
    data_queue,
    now, phrase_time, phrase_complete,
    audio_data_list,  \* local of process_audio_queue
    queue_at_call,    \* history: the queue when process_audio_queue was called
    pushed_during,    \* history: chunks put while that call was running
    queue_at_return,  \* history: the queue when that call returned
    audio_data, text,
    submitted,        \* history: all audio handed to audio_model.transcribe
    poll_start,       \* history: transcript and file when the poll began
    transcription,
    console,          \* lines on the screen since the last clear
    file,             \* None until the output file is created
    wrote,            \* outcome of the latest write: "none", "ok", "failed"
    error,            \* what logging.error reported before sys.exit
    closed_lines,     \* history: transcript length at the latest boundary
    drained_bytes,    \* history: all drain results so far, concatenated
    handed,           \* history: chunks (by put number) given to the model
    os_name,          \* os.name seen by clear_console
    run_calls,        \* calls of subprocess.run made by clear_console
    print_calls,      \* calls of print made by clear_console
    clear_call        \* history: the latest call of clear_console

vars == << pc, caller, args, exit_code, acquired, listening, pushed,
           data_queue, now, phrase_time, phrase_complete, audio_data_list,
           queue_at_call, pushed_during, queue_at_return, audio_data, text,
           submitted, poll_start, transcription, console, file, wrote,
           error, closed_lines, drained_bytes, handed, os_name, run_calls,
           print_calls, clear_call >>

queueVars == << pushed, data_queue, pushed_during >>
drainVars == << audio_data_list, queue_at_call, queue_at_return >>
timerVars == << now, phrase_time, phrase_complete >>
outVars == << transcription, console, file, wrote >>
procVars == << caller, args, exit_code, acquired, listening >>
histVars == << closed_lines, drained_bytes, handed >>
clearVars == << os_name, run_calls, print_calls, clear_call >>
sideVars == << error, clearVars >>

LoopPcs == { "poll", "check", "call_drain", "drain_check", "drain_get",
             "drain_ret", "drained", "convert", "transcribe", "update",
             "display", "write", "sleep", "sleep_no_audio", "except" }
DrainPcs == { "drain_check", "drain_get", "drain_ret" }

Platforms ==
    { [linux |-> TRUE, default_microphone |-> "list"],
      [linux |-> TRUE, default_microphone |-> "pulse"],
      [linux |-> FALSE, default_microphone |-> "absent"] }

MicOutcomes == {"ok", "not_found", "os_error"}

ArgSpace ==
    [ energy_threshold : EnergyThresholds,
      record_timeout : RecordTimeouts,
      phrase_timeout : PhraseTimeouts,
      output_file : BOOLEAN,
      show_confidence : BOOLEAN ]

InitState ==
    /\ exit_code = None
    /\ acquired = {}
    /\ listening = FALSE
    /\ pushed = <<>>
    /\ data_queue = <<>>
    /\ now = 0
    /\ phrase_time = None
    /\ phrase_complete = FALSE
    /\ audio_data_list = <<>>
    /\ queue_at_call = <<>>
    /\ pushed_during = <<>>
    /\ queue_at_return = <<>>
    /\ audio_data = None
    /\ text = <<>>
    /\ submitted = <<>>
    /\ transcription = InitTranscription
    /\ poll_start = [transcription |-> InitTranscription, file |-> None]
    /\ console = <<>>
    /\ file = None
    /\ wrote = "none"
    /\ error = None
    /\ closed_lines = 0
    /\ drained_bytes = <<>>
    /\ handed = {}
    /\ os_name = "posix"
    /\ run_calls = <<>>
    /\ print_calls = <<>>
    /\ clear_call = None

Init ==
    /\ pc = "validate"
    /\ caller = "main"
    /\ args \in ArgSpace
    /\ InitState

\* ----------------------------------------------------------------- startup
Exit(code) ==
    /\ pc' = "exited"
    /\ exit_code' = Some(code)

LogError(stage, msg) == error' = Some([stage |-> stage, msg |-> msg])

ListingHeader == <<"L">>

Validate_CreateFirst ==
    /\ pc = "validate"
    /\ acquired' = acquired \cup {"queue", "recorder"}
    /\ IF ValidateError(args) # None
       THEN Exit(1) /\ LogError("validate", ValidateError(args).val)
       ELSE /\ pc' = "mic"
            /\ UNCHANGED << exit_code, error >>
    /\ UNCHANGED << caller, args, listening, queueVars, drainVars, timerVars,
                    audio_data, text, submitted, poll_start, outVars,
                    histVars, clearVars >>

\* lines 148-163
Validate ==
    /\ pc = "validate"
    /\ IF ValidateError(args) # None
       THEN /\ Exit(1)
            /\ LogError("validate", ValidateError(args).val)
            /\ UNCHANGED acquired
       ELSE /\ pc' = "mic"
            /\ acquired' = acquired \cup {"queue", "recorder"}
            /\ UNCHANGED << exit_code, error >>
    /\ UNCHANGED << caller, args, listening, queueVars, drainVars, timerVars,
                    audio_data, text, submitted, poll_start, outVars,
                    histVars, clearVars >>

\* lines 165-173, get_microphone_source
GetMicrophone ==
    /\ pc = "mic"
    /\ \E platform \in Platforms, outcome \in MicOutcomes :
         IF platform.linux /\ platform.default_microphone = "list"
         THEN /\ Exit(0)
              /\ console' = <<ListingHeader>>
              /\ UNCHANGED << acquired, error >>
         ELSE IF outcome = "ok"
         THEN /\ pc' = "model"
              /\ acquired' = acquired \cup {"microphone"}
              /\ UNCHANGED << exit_code, error, console >>
         ELSE /\ Exit(1)
              /\ LogError("microphone", outcome)
              /\ UNCHANGED << acquired, console >>
    /\ UNCHANGED << caller, args, listening, queueVars, drainVars, timerVars,
                    audio_data, text, submitted, poll_start, transcription,
                    file, wrote, histVars, clearVars >>

LoadModel_Swallow ==
    /\ pc = "model"
    /\ \E outcome \in {"ok", "error"} :
         IF outcome = "ok"
         THEN /\ pc' = "ambient"
              /\ acquired' = acquired \cup {"model"}
              /\ UNCHANGED << exit_code, error >>
         ELSE /\ pc' = "ambient"
              /\ LogError("model", "Error loading model")
              /\ UNCHANGED << exit_code, acquired >>
    /\ UNCHANGED << caller, args, listening, queueVars, drainVars, timerVars,
                    audio_data, text, submitted, poll_start, outVars,
                    histVars, clearVars >>

\* lines 175-180, load_whisper_model
LoadModel ==
    /\ pc = "model"
    /\ \E outcome \in {"ok", "error"} :
         IF outcome = "ok"
         THEN /\ pc' = "ambient"
              /\ acquired' = acquired \cup {"model"}
              /\ UNCHANGED << exit_code, error >>
         ELSE /\ Exit(1)
              /\ LogError("model", "Error loading model")
              /\ UNCHANGED acquired
    /\ UNCHANGED << caller, args, listening, queueVars, drainVars, timerVars,
                    audio_data, text, submitted, poll_start, outVars,
                    histVars, clearVars >>

\* lines 182-190
AdjustAmbient ==
    /\ pc = "ambient"
    /\ \E outcome \in {"ok", "error"} :
         IF outcome = "ok"
         THEN pc' = "listen" /\ UNCHANGED << exit_code, error >>
         ELSE Exit(1) /\ LogError("ambient", "Error adjusting for ambient noise")
    /\ UNCHANGED << caller, args, acquired, listening, queueVars, drainVars,
                    timerVars, audio_data, text, submitted, poll_start,
                    outVars, histVars, clearVars >>

\* lines 197-203
StartListening ==
    /\ pc = "listen"
    /\ pc' = "poll"
    /\ listening' = TRUE
    /\ UNCHANGED << caller, args, exit_code, acquired, queueVars, drainVars,
                    timerVars, audio_data, text, submitted, poll_start,
                    histVars, sideVars, outVars >>

\* ---------------------------------------------------------- capture thread
Put_Lifo(chunk) ==
    /\ pushed' = Append(pushed, chunk)
    /\ data_queue' = <<chunk>> \o data_queue
    /\ pushed_during' = IF pc \in DrainPcs THEN Append(pushed_during, chunk)
                        ELSE pushed_during

Put(chunk) ==
    /\ pushed' = Append(pushed, chunk)
    /\ data_queue' = Append(data_queue, chunk)
    /\ pushed_during' = IF pc \in DrainPcs THEN Append(pushed_during, chunk)
                        ELSE pushed_during

\* lines 192-195
record_callback ==
    /\ listening
    /\ Len(pushed) < MaxPush
    /\ \E len \in ChunkLens : Put(MakeChunk(Len(pushed) + 1, len))
    /\ UNCHANGED << pc, procVars, drainVars, timerVars, audio_data, text,
                    submitted, poll_start, histVars, sideVars, outVars >>

\* ------------------------------------------------------ process_audio_queue
\* line 98
EnterDrain ==
    /\ audio_data_list' = <<>>
    /\ queue_at_call' = data_queue
    /\ pushed_during' = <<>>
    /\ pc' = "drain_check"

\* line 99
DrainCheck ==
    /\ pc = "drain_check"
    /\ pc' = IF QueueEmpty(data_queue) THEN "drain_ret" ELSE "drain_get"
    /\ UNCHANGED << procVars, queueVars, drainVars, timerVars, audio_data,
                    text, submitted, poll_start, histVars, sideVars,
                    outVars >>

\* lines 100-103
DrainGet ==
    /\ pc = "drain_get"
    /\ IF QueueEmpty(data_queue)
       THEN /\ pc' = "drain_ret"
            /\ UNCHANGED << data_queue, audio_data_list >>
       ELSE /\ pc' = "drain_check"
            /\ audio_data_list' = ListAppend(audio_data_list, Head(data_queue))
            /\ data_queue' = Tail(data_queue)
    /\ UNCHANGED << procVars, pushed, pushed_during, queue_at_call,
                    queue_at_return, timerVars, audio_data, text, submitted,
                    poll_start, histVars, sideVars, outVars >>

ResultBytes(result) == IF result = None THEN <<>> ELSE result.val

\* line 105, and the caller's assignment of the result
DrainReturn ==
    /\ pc = "drain_ret"
    /\ pc' = "drained"
    /\ audio_data' = DrainResult(audio_data_list)
    /\ audio_data_list' = <<>>
    /\ queue_at_return' = data_queue
    /\ drained_bytes' = drained_bytes \o ResultBytes(audio_data')
    /\ UNCHANGED << procVars, queueVars, queue_at_call, timerVars, text,
                    submitted, poll_start, outVars, closed_lines, handed,
                    sideVars >>

\* ---------------------------------------------------------------- main loop
\* line 208
LoopTop ==
    /\ pc = "poll"
    /\ pc' = "check"
    /\ \E t \in now..MaxTime : now' = t
    /\ poll_start' = [transcription |-> transcription, file |-> file]
    /\ queue_at_call' = <<>>
    /\ pushed_during' = <<>>
    /\ queue_at_return' = <<>>
    /\ UNCHANGED << procVars, pushed, data_queue, audio_data_list,
                    phrase_time, phrase_complete, audio_data, text, submitted,
                    outVars, histVars, sideVars >>

ClosedLines(closed, complete, tr) == IF complete THEN Len(tr) ELSE closed

CheckQueue_TimerAlways ==
    /\ pc = "check"
    /\ caller = "main"
    /\ phrase_time' = NextPhraseTime(phrase_time, now)
    /\ IF ~QueueEmpty(data_queue)
       THEN /\ phrase_complete' =
                   PhraseComplete(phrase_time, now, args.phrase_timeout)
            /\ closed_lines' =
                   ClosedLines(closed_lines, phrase_complete', transcription)
            /\ pc' = "call_drain"
       ELSE /\ pc' = "sleep"
            /\ UNCHANGED << phrase_complete, closed_lines >>
    /\ UNCHANGED << procVars, queueVars, drainVars, now, audio_data, text,
                    submitted, poll_start, outVars, drained_bytes, handed,
                    sideVars >>

CheckQueue_NoCheck ==
    /\ pc = "check"
    /\ caller = "main"
    /\ phrase_complete' = PhraseComplete(phrase_time, now, args.phrase_timeout)
    /\ closed_lines' = ClosedLines(closed_lines, phrase_complete', transcription)
    /\ phrase_time' = NextPhraseTime(phrase_time, now)
    /\ pc' = "call_drain"
    /\ UNCHANGED << procVars, queueVars, drainVars, now, audio_data, text,
                    submitted, poll_start, outVars, drained_bytes, handed,
                    sideVars >>

\* lines 211-218, 258-259
CheckQueue ==
    /\ pc = "check"
    /\ caller = "main"
    /\ IF ~QueueEmpty(data_queue)
       THEN /\ phrase_complete' =
                   PhraseComplete(phrase_time, now, args.phrase_timeout)
            /\ closed_lines' =
                   ClosedLines(closed_lines, phrase_complete', transcription)
            /\ phrase_time' = NextPhraseTime(phrase_time, now)
            /\ pc' = "call_drain"
       ELSE /\ pc' = "sleep"
            /\ UNCHANGED << phrase_time, phrase_complete, closed_lines >>
    /\ UNCHANGED << procVars, queueVars, drainVars, now, audio_data, text,
                    submitted, poll_start, outVars, drained_bytes, handed,
                    sideVars >>

\* line 221, the call
CallDrain ==
    /\ pc = "call_drain"
    /\ EnterDrain
    /\ UNCHANGED << procVars, pushed, data_queue, queue_at_return, timerVars,
                    audio_data, text, submitted, poll_start, histVars,
                    sideVars, outVars >>

\* lines 223-225
CheckAudio ==
    /\ pc = "drained"
    /\ caller = "main"
    /\ pc' = IF Falsy(audio_data) THEN "sleep_no_audio" ELSE "convert"
    /\ UNCHANGED << procVars, queueVars, drainVars, timerVars, audio_data,
                    text, submitted, poll_start, histVars, sideVars,
                    outVars >>

\* line 228, convert_audio_to_numpy
Convert ==
    /\ pc = "convert"
    /\ pc' = IF ConvertFails(audio_data.val) THEN "except" ELSE "transcribe"
    /\ UNCHANGED << procVars, queueVars, drainVars, timerVars, audio_data,
                    text, submitted, poll_start, histVars, sideVars,
                    outVars >>

\* the chunks, by put number, that the latest call of process_audio_queue
\* returned; meaningful from its return to the end of the poll
LastDrainCount ==
    Len(queue_at_call) + Len(pushed_during) - Len(queue_at_return)

LastDrainIds ==
    LET consumed == Len(pushed) - Len(data_queue) - Len(audio_data_list)
    IN  (consumed - LastDrainCount + 1)..consumed

\* lines 231-239 without the test of line 234
Transcribe_NoTextTest ==
    /\ pc = "transcribe"
    /\ submitted' = submitted \o audio_data.val
    /\ handed' = handed \cup LastDrainIds
    /\ \/ /\ pc' = "except"
          /\ UNCHANGED text
       \/ \E result \in TranscribeResults :
            /\ text' = Strip(result.text)
            /\ pc' = "update"
    /\ UNCHANGED << procVars, queueVars, drainVars, timerVars, audio_data,
                    poll_start, outVars, closed_lines, drained_bytes,
                    sideVars >>

\* lines 231-239
Transcribe ==
    /\ pc = "transcribe"
    /\ submitted' = submitted \o audio_data.val
    /\ handed' = handed \cup LastDrainIds
    /\ \/ /\ pc' = "except"
          /\ UNCHANGED text
       \/ \E result \in TranscribeResults :
            LET t == Strip(result.text) IN
            IF t # <<>>
            THEN /\ text' = FormatText(t, args.show_confidence, result)
                 /\ pc' = "update"
            ELSE /\ text' = t
                 /\ pc' = "poll"
    /\ UNCHANGED << procVars, queueVars, drainVars, timerVars, audio_data,
                    poll_start, outVars, closed_lines, drained_bytes,
                    sideVars >>

\* lines 241-245
Update ==
    /\ pc = "update"
    /\ pc' = "display"
    /\ transcription' = UpdateTranscription(transcription, phrase_complete, text)
    /\ wrote' = "none"
    /\ UNCHANGED << procVars, queueVars, drainVars, timerVars, audio_data,
                    text, submitted, poll_start, histVars, sideVars, console,
                    file >>

\* line 248, display_transcription
Display ==
    /\ pc = "display"
    /\ pc' = "write"
    /\ console' = NonBlankLines(transcription)
    /\ UNCHANGED << procVars, queueVars, drainVars, timerVars, audio_data,
                    text, submitted, poll_start, histVars, sideVars,
                    transcription, file, wrote >>

\* lines 250-256 and 277-283: open(..., 'w') and f.write
WriteOutput ==
    IF args.output_file
    THEN \/ /\ file' = WriteFile(file, transcription)
            /\ wrote' = "ok"
         \/ /\ file' \in {file, Some(<<>>)}
            /\ wrote' = "failed"
    ELSE UNCHANGED << file, wrote >>

Write_FailEscapes ==
    /\ pc = "write"
    /\ WriteOutput
    /\ pc' = IF wrote' = "failed" THEN "cleanup" ELSE "poll"
    /\ UNCHANGED << procVars, queueVars, drainVars, timerVars, audio_data,
                    text, submitted, poll_start, histVars, sideVars,
                    transcription, console >>

Write ==
    /\ pc = "write"
    /\ pc' = "poll"
    /\ WriteOutput
    /\ UNCHANGED << procVars, queueVars, drainVars, timerVars, audio_data,
                    text, submitted, poll_start, histVars, sideVars,
                    transcription, console >>

\* lines 224-225
SleepNoAudio ==
    /\ pc = "sleep_no_audio"
    /\ pc' = "poll"
    /\ UNCHANGED << procVars, queueVars, drainVars, timerVars, audio_data,
                    text, submitted, poll_start, histVars, sideVars,
                    outVars >>

\* lines 258-259
Sleep ==
    /\ pc = "sleep"
    /\ pc' = "poll"
    /\ UNCHANGED << procVars, queueVars, drainVars, timerVars, audio_data,
                    text, submitted, poll_start, histVars, sideVars,
                    outVars >>

HandleError_Reraise ==
    /\ pc = "except"
    /\ Exit(1)
    /\ UNCHANGED << caller, args, acquired, listening, queueVars, drainVars,
                    timerVars, audio_data, text, submitted, poll_start,
                    outVars, histVars, sideVars >>

HandleError_Retry ==
    /\ pc = "except"
    /\ pc' = "poll"
    /\ data_queue' = <<audio_data.val>> \o data_queue
    /\ UNCHANGED << procVars, pushed, pushed_during, drainVars, timerVars,
                    audio_data, text, submitted, poll_start, histVars,
                    sideVars, outVars >>

\* lines 263-265
HandleError ==
    /\ pc = "except"
    /\ pc' = "poll"
    /\ UNCHANGED << procVars, queueVars, drainVars, timerVars, audio_data,
                    text, submitted, poll_start, histVars, sideVars,
                    outVars >>

\* ---------------------------------------------------------------- shutdown
Interrupt_NoFlush ==
    /\ pc \in LoopPcs
    /\ caller = "main"
    /\ pc' = "done"
    /\ UNCHANGED << procVars, queueVars, drainVars, timerVars, audio_data,
                    text, submitted, poll_start, outVars, histVars, sideVars >>

\* lines 261-262
Interrupt ==
    /\ pc \in LoopPcs
    /\ caller = "main"
    /\ pc' = "cleanup"
    /\ UNCHANGED << procVars, queueVars, drainVars, timerVars, audio_data,
                    text, submitted, poll_start, histVars, sideVars,
                    outVars >>

FinalHeader == <<"F">>

\* line 269
Cleanup ==
    /\ pc = "cleanup"
    /\ pc' = "final_print"
    /\ listening' = FALSE
    /\ UNCHANGED << caller, args, exit_code, acquired, queueVars, drainVars,
                    timerVars, audio_data, text, submitted, poll_start,
                    histVars, sideVars, outVars >>

\* lines 271-275
FinalPrint ==
    /\ pc = "final_print"
    /\ pc' = "final_write"
    /\ console' = console \o <<FinalHeader>> \o NonBlankLines(transcription)
    /\ UNCHANGED << procVars, queueVars, drainVars, timerVars, audio_data,
                    text, submitted, poll_start, histVars, sideVars,
                    transcription, file, wrote >>

\* lines 277-285
FinalWrite ==
    /\ pc = "final_write"
    /\ pc' = "done"
    /\ WriteOutput
    /\ UNCHANGED << procVars, queueVars, drainVars, timerVars, audio_data,
                    text, submitted, poll_start, histVars, sideVars,
                    transcription, console >>

Next ==
    \/ Validate \/ GetMicrophone \/ LoadModel \/ AdjustAmbient
    \/ StartListening
    \/ record_callback
    \/ LoopTop \/ CheckQueue \/ CallDrain
    \/ DrainCheck \/ DrainGet \/ DrainReturn
    \/ CheckAudio \/ Convert \/ Transcribe \/ Update \/ Display \/ Write
    \/ Sleep \/ SleepNoAudio \/ HandleError
    \/ Interrupt \/ Cleanup \/ FinalPrint \/ FinalWrite

Spec == Init /\ [][Next]_vars

\* ------------------------------------------- the poll loop, never interrupted
\* One configuration, no KeyboardInterrupt; the main thread keeps running and
\* every call it makes returns or raises, the capture thread may stop putting.
LiveArgs ==
    [ energy_threshold |-> 0, record_timeout |-> 1, phrase_timeout |-> 1,
      output_file |-> TRUE, show_confidence |-> FALSE ]

InitLive ==
    /\ pc = "validate"
    /\ caller = "main"
    /\ args = LiveArgs
    /\ InitState

MainLoopStep ==
    \/ LoopTop \/ CheckQueue \/ CallDrain
    \/ DrainCheck \/ DrainGet \/ DrainReturn
    \/ CheckAudio \/ Convert \/ Transcribe \/ Update \/ Display \/ Write
    \/ Sleep \/ SleepNoAudio \/ HandleError

NextLive ==
    \/ Validate \/ GetMicrophone \/ LoadModel \/ AdjustAmbient
    \/ StartListening
    \/ record_callback
    \/ MainLoopStep

LiveSpec == InitLive /\ [][NextLive]_vars /\ WF_vars(MainLoopStep)

\* ------------------------------------------- process_audio_queue on its own
\* test_process_audio_queue_empty / test_process_audio_queue_with_data: a
\* caller that puts chunks on a queue and calls process_audio_queue.
TestArgs ==
    [ energy_threshold |-> 0, record_timeout |-> 1, phrase_timeout |-> 1,
      output_file |-> FALSE, show_confidence |-> FALSE ]

InitDrain ==
    /\ pc = "test_idle"
    /\ caller = "test"
    /\ args = TestArgs
    /\ InitState

TestPut ==
    /\ caller = "test"
    /\ Len(pushed) < MaxPush
    /\ \E len \in ChunkLens : Put(MakeChunk(Len(pushed) + 1, len))
    /\ pc' = IF pc = "drained" THEN "test_idle" ELSE pc
    /\ UNCHANGED << procVars, drainVars, timerVars, audio_data, text,
                    submitted, poll_start, histVars, sideVars, outVars >>

TestCall ==
    /\ caller = "test"
    /\ pc \in {"test_idle", "drained"}
    /\ EnterDrain
    /\ UNCHANGED << procVars, pushed, data_queue, queue_at_return, timerVars,
                    audio_data, text, submitted, poll_start, histVars,
                    sideVars, outVars >>

NextDrain ==
    \/ TestPut \/ TestCall
    \/ DrainCheck \/ DrainGet \/ DrainReturn

SpecDrain == InitDrain /\ [][NextDrain]_vars

\* ------------------------------------------------- clear_console on its own
\* test_clear_console_unix / _windows / _fallback: a caller that patches
\* os.name, subprocess.run and print, and calls clear_console.  In Spec the
\* Display step keeps only the effect on the screen.
OsNames == {"nt", "posix"}
RunOutcomes == {"ok", "CalledProcessError", "FileNotFoundError"}

\* lines 39-42
ClearCommand(os) ==
    IF os = "nt" THEN [args |-> <<"cls">>, shell |-> TRUE, check |-> TRUE]
    ELSE [args |-> <<"clear">>, shell |-> FALSE, check |-> TRUE]

Repeat(c, n) == [i \in 1..n |-> c]

FallbackPrints_Separate == [i \in 1..CONSOLE_CLEAR_FALLBACK_LINES |-> <<"\n">>]

\* line 45: the print calls of the fallback
FallbackPrints == << Repeat("\n", CONSOLE_CLEAR_FALLBACK_LINES) >>

InitClear ==
    /\ pc = "clear_idle"
    /\ caller = "test"
    /\ args = TestArgs
    /\ InitState

clearFrame ==
    << procVars, queueVars, drainVars, timerVars, audio_data, text,
       submitted, poll_start, outVars, histVars, error >>

TestPatchOs ==
    /\ pc \in {"clear_idle", "clear_done"}
    /\ Len(run_calls) < MaxClearCalls
    /\ pc' = "clear_idle"
    /\ \E os \in OsNames : os_name' = os
    /\ UNCHANGED << clearFrame, run_calls, print_calls, clear_call >>

TestClearCall ==
    /\ pc \in {"clear_idle", "clear_done"}
    /\ Len(run_calls) < MaxClearCalls
    /\ pc' = "clear_run"
    /\ clear_call' = Some([ runs |-> Len(run_calls),
                            prints |-> Len(print_calls),
                            outcome |-> "pending" ])
    /\ UNCHANGED << clearFrame, os_name, run_calls, print_calls >>

\* lines 38-43
ClearRun ==
    /\ pc = "clear_run"
    /\ run_calls' = Append(run_calls, ClearCommand(os_name))
    /\ \E outcome \in RunOutcomes :
         /\ clear_call' = Some([clear_call.val EXCEPT !.outcome = outcome])
         /\ pc' = IF outcome = "ok" THEN "clear_done" ELSE "clear_except"
    /\ UNCHANGED << clearFrame, os_name, print_calls >>

\* lines 43-45
ClearFallback ==
    /\ pc = "clear_except"
    /\ pc' = "clear_done"
    /\ print_calls' = print_calls \o FallbackPrints
    /\ UNCHANGED << clearFrame, os_name, run_calls, clear_call >>

NextClear == TestPatchOs \/ TestClearCall \/ ClearRun \/ ClearFallback

SpecClear == InitClear /\ [][NextClear]_vars

\* ================================================================= claims
RECURSIVE IsSubseq(_, _)
IsSubseq(a, b) ==
    IF a = <<>> THEN TRUE
    ELSE IF b = <<>> THEN FALSE
    ELSE IF Head(a) = Head(b) THEN IsSubseq(Tail(a), Tail(b))
    ELSE IsSubseq(a, Tail(b))

IsAppendOf(new, old) ==
    /\ Len(new) = Len(old) + 1
    /\ \A i \in 1..Len(old) : new[i] = old[i]

IsReplaceLastOf(new, old) ==
    /\ Len(new) = Len(old)
    /\ \A i \in 1..(Len(old) - 1) : new[i] = old[i]

ShutdownPcs == {"cleanup", "final_print", "final_write", "done"}

\* C1 (as stated): a poll that finds data is a phrase boundary (its text is
\* appended instead of replacing the last line) iff the previous timestamp is
\* absent or now - previous > phrase timeout.
C1_AsStated ==
    [][ pc = "check" /\ pc' = "call_drain" =>
          ( phrase_complete' <=>
              ( phrase_time = None \/ now - phrase_time.val > args.phrase_timeout ) )
      ]_vars

\* C1 (amended): a poll that finds data is a phrase boundary iff the previous
\* timestamp is present and now - previous > phrase timeout; the text such a
\* poll yields is appended exactly when the poll is a boundary, and replaces
\* the last line otherwise.
C1_BoundaryDecision ==
    /\ [][ pc = "check" /\ pc' = "call_drain" =>
             ( phrase_complete' <=>
                 ( phrase_time # None /\ now - phrase_time.val > args.phrase_timeout ) )
         ]_vars
    /\ [][ pc = "update" /\ pc' = "display" =>
             IF phrase_complete
             THEN IsAppendOf(transcription', transcription)
                  /\ transcription'[Len(transcription')] = text
             ELSE IsReplaceLastOf(transcription', transcription)
                  /\ transcription'[Len(transcription')] = text
         ]_vars

C1_Witness ==
    /\ pc = "display"
    /\ phrase_complete
    /\ phrase_time # None
    /\ Len(transcription) = 2

\* C2: with no put during the call, process_audio_queue returns the
\* concatenation of the queued chunks in put order and leaves the queue empty.
C2_DrainFifo ==
    ( pc = "drained" /\ pushed_during = <<>> /\ queue_at_call # <<>> ) =>
        /\ audio_data = Some(ConcatBytes(queue_at_call))
        /\ queue_at_return = <<>>
        /\ data_queue = <<>>

C2_Witness ==
    /\ pc = "drained"
    /\ pushed_during = <<>>
    /\ Len(queue_at_call) = 2
    /\ audio_data = Some(<<1, 1, 2, 2>>)

\* C3: process_audio_queue called on an empty queue returns None, not an
\* empty byte buffer, and leaves the queue empty; so does a drain that
\* directly follows a drain.
C3_EmptyDrainIsNone ==
    ( pc = "drained" /\ pushed_during = <<>> /\ queue_at_call = <<>> ) =>
        /\ audio_data = None
        /\ audio_data # Some(<<>>)
        /\ queue_at_return = <<>>
        /\ data_queue = <<>>

C3_Witness ==
    /\ pc = "drained"
    /\ pushed_during = <<>>
    /\ queue_at_call = <<>>
    /\ pushed # <<>>
    /\ audio_data = None

\* C4: the transcript changes only by replacing its last element or by
\* appending one element; it is appended to only in a poll that detected a
\* phrase boundary; no other element is modified or removed.
C4_TranscriptSteps ==
    [][ transcription' # transcription =>
          /\ pc = "update"
          /\ \/ IsReplaceLastOf(transcription', transcription)
             \/ IsAppendOf(transcription', transcription) /\ phrase_complete
      ]_vars

C4_Witness ==
    /\ pc = "display"
    /\ ~phrase_complete
    /\ Len(transcription) = 2
    /\ transcription[1] # <<>>
    /\ transcription[2] = text

\* C5: the transcript starts as one empty placeholder line and is never
\* empty, shutdown included.
C5_TranscriptNonEmpty ==
    /\ Len(transcription) >= 1
    /\ pc = "validate" => transcription = << <<>> >>

C5_Witness ==
    /\ pc \in ShutdownPcs
    /\ Len(transcription) >= 2

\* C6: in a poll that found data the phrase timer equals that poll's current
\* time from the check on, whatever the boundary decision and whether the
\* transcription yields text, yields none or fails.
PollWithDataPcs ==
    { "call_drain", "drain_check", "drain_get", "drain_ret", "drained",
      "sleep_no_audio", "convert", "transcribe", "update", "display",
      "write", "except" }

C6_TimerSet ==
    /\ []( caller = "main" /\ pc \in PollWithDataPcs => phrase_time = Some(now) )
    /\ [][ pc = "check" /\ data_queue # <<>> /\ pc' \notin {"check", "cleanup"} =>
             pc' = "call_drain" /\ phrase_time' = Some(now)
         ]_vars
    /\ [][ (pc \in PollWithDataPcs) /\ pc' = "poll" =>
             phrase_time' = Some(now)
         ]_vars

C6_Witness ==
    /\ pc = "except"
    /\ ~phrase_complete
    /\ now > 0
    /\ phrase_time = Some(now)
    /\ transcription # InitTranscription

\* C7: a poll that finds the queue empty changes neither the transcript, the
\* phrase timer, the file nor the screen, makes no transcription call, and
\* only sleeps before the next poll.
C7_EmptyPollFrame ==
    [][ ( pc = "check" /\ data_queue = <<>> ) \/ pc = "sleep" =>
          /\ UNCHANGED << transcription, phrase_time, phrase_complete, file,
                          wrote, console, submitted, audio_data, text >>
          /\ pc = "check" => pc' \in {"check", "sleep", "cleanup"}
          /\ pc = "sleep" => pc' \in {"sleep", "poll", "cleanup"}
      ]_vars

C7_Witness ==
    /\ pc = "sleep"
    /\ phrase_time # None
    /\ now > phrase_time.val
    /\ transcription # InitTranscription

\* C8 (as stated): a chunk put while a drain is running is not part of that
\* drain's result and stays in the queue.
C8_AsStated ==
    ( caller = "main" /\ pc = "drained" ) =>
        /\ audio_data = Some(ConcatBytes(queue_at_call))
        /\ queue_at_return = pushed_during

\* C8 (amended): the chunks put while a drain is running split in put order:
\* those put before the drain's last emptiness check are part of its result,
\* the others stay in the queue; the queue only loses its head, to a drain.
C8_DrainSplit ==
    /\ []( ( caller = "main" /\ pc = "drained" ) =>
             \E k \in 0..Len(pushed_during) :
                /\ audio_data =
                     Some(ConcatBytes(queue_at_call \o SubSeq(pushed_during, 1, k)))
                /\ queue_at_return =
                     SubSeq(pushed_during, k + 1, Len(pushed_during)) )
    /\ [][ data_queue' # data_queue =>
             \/ IsAppendOf(data_queue', data_queue)
             \/ /\ pc = "drain_get"
                /\ data_queue # <<>>
                /\ data_queue' = Tail(data_queue)
                /\ audio_data_list' = Append(audio_data_list, Head(data_queue))
         ]_vars

C8_Witness ==
    /\ caller = "main"
    /\ pc = "drained"
    /\ Len(queue_at_call) = 1
    /\ Len(pushed_during) = 2
    /\ audio_data = Some(<<1, 1, 2, 2>>)
    /\ queue_at_return = << <<3, 3>> >>

\* C9: a failed transcription call is absorbed: the process keeps running,
\* transcript and file are as they were when the poll began, the loop goes
\* on to the next poll, and no audio is handed to the model twice.
C9_FailureAbsorbed ==
    /\ []( pc = "except" =>
             /\ exit_code = None
             /\ transcription = poll_start.transcription
             /\ file = poll_start.file )
    /\ []( IsSubseq(submitted, ConcatBytes(pushed)) )
    /\ [][ pc = "except" =>
             /\ pc' \in {"except", "poll", "cleanup"}
             /\ UNCHANGED << transcription, file, submitted >>
         ]_vars

C9_Witness ==
    /\ pc = "except"
    /\ submitted # <<>>
    /\ transcription # InitTranscription
    /\ file # None
    /\ data_queue # <<>>

\* C10: with an output file configured, after a write that succeeded (during
\* an update or at shutdown) the file holds exactly the transcript's
\* non-blank lines joined by newlines, in transcript order.
C10_FileIsTranscript ==
    wrote = "ok" =>
        /\ args.output_file
        /\ file = Some(Join(<<"\n">>,
                     SelectSeq(transcription, LAMBDA line : Strip(line) # <<>>)))

C10_Witness ==
    /\ pc = "done"
    /\ wrote = "ok"
    /\ Len(transcription) = 3
    /\ transcription[1] = <<>>
    /\ Len(file.val) >= 3

\* C11: a user interrupt anywhere in the main loop leaves the loop with the
\* transcript untouched; the capture is then told to stop, in one step that
\* waits for nothing, and only after that the transcript is printed and, when
\* an output file is configured, written; the process ends after the flush
\* and the flushed content is the transcript as it was at the interrupt.
C11_InterruptFlush ==
    /\ []( pc \in {"final_print", "final_write", "done"} => ~listening )
    /\ [][ pc' = "cleanup" /\ pc # "cleanup" =>
             /\ pc \in LoopPcs
             /\ UNCHANGED << transcription, file, console, listening >>
         ]_vars
    /\ [][ (pc \in ShutdownPcs) =>
             /\ UNCHANGED transcription
             /\ pc = "cleanup" => pc' \in {"cleanup", "final_print"}
             /\ pc = "final_print" => pc' \in {"final_print", "final_write"}
             /\ pc = "final_write" => pc' \in {"final_write", "done"}
             /\ pc = "done" => pc' = "done"
         ]_vars
    /\ [][ pc' = "done" => pc \in {"final_write", "done"} ]_vars
    /\ [][ pc = "cleanup" /\ pc' = "final_print" =>
             ~listening' /\ UNCHANGED << data_queue, pushed, console, file >>
         ]_vars
    /\ [][ pc = "final_print" /\ pc' = "final_write" =>
             console' = console \o <<FinalHeader>>
                          \o SelectSeq(transcription, LAMBDA l : Strip(l) # <<>>)
         ]_vars
    /\ [][ pc = "final_write" /\ pc' = "done" =>
             IF args.output_file
             THEN \/ wrote' = "failed"
                  \/ wrote' = "ok" /\ file' = Some(FileText(transcription))
             ELSE UNCHANGED << file, wrote >>
         ]_vars

C11_Witness ==
    /\ pc = "done"
    /\ ~listening
    /\ audio_data_list # <<>>
    /\ args.output_file
    /\ wrote = "ok"
    /\ Len(transcription) = 2
    /\ file = Some(FileText(transcription))

\* C12: with a negative energy threshold or a non-positive record or phrase
\* timeout, main exits with status 1 at validation and nothing else has
\* happened: no queue or recorder, no microphone or model, no capture, no
\* output, no file.
InvalidArgs ==
    \/ args.energy_threshold < 0
    \/ args.record_timeout <= 0
    \/ args.phrase_timeout <= 0

C12_InvalidExitsFirst ==
    ( caller = "main" /\ InvalidArgs ) =>
        /\ pc \in {"validate", "exited"}
        /\ pc = "exited" => exit_code = Some(1)
        /\ acquired = {}
        /\ ~listening
        /\ pushed = <<>>
        /\ console = <<>>
        /\ file = None

C12_Witness ==
    /\ pc = "exited"
    /\ exit_code = Some(1)
    /\ args.energy_threshold >= 0
    /\ args.record_timeout > 0
    /\ args.phrase_timeout = 0
    /\ args.output_file

\* C13: validate_arguments raises exactly when energy_threshold < 0 or
\* record_timeout <= 0 or phrase_timeout <= 0; the message names the energy
\* threshold when that is negative, and the record timeout when the energy
\* threshold is valid and the record timeout is not positive.
C13_ValidateExactly ==
    ( caller = "main" /\ pc # "validate" ) =>
        LET raised == error # None /\ error.val.stage = "validate" IN
        /\ raised <=> InvalidArgs
        /\ args.energy_threshold < 0 =>
             error.val.msg = "Energy threshold must be non-negative"
        /\ ( args.energy_threshold >= 0 /\ args.record_timeout <= 0 ) =>
             error.val.msg = "Record timeout must be positive"
        /\ ( ~InvalidArgs /\ pc = "mic" ) => error = None

C13_Witness ==
    /\ pc = "exited"
    /\ args.energy_threshold = 0
    /\ args.record_timeout = 0
    /\ args.phrase_timeout = -1
    /\ error = Some([stage |-> "validate",
                     msg |-> "Record timeout must be positive"])

\* C14: a failure to get the microphone or to load the model ends the
\* process with status 1, and the microphone listing ends it with status 0,
\* in each case before the capture starts and before the poll loop: nothing
\* was pushed, rendered or written.
C14_StartupExits ==
    /\ ( error # None /\ error.val.stage \in {"microphone", "model"} ) =>
          pc = "exited" /\ exit_code = Some(1)
    /\ console = <<ListingHeader>> => pc = "exited" /\ exit_code = Some(0)
    /\ pc = "exited" =>
          /\ exit_code \in {Some(0), Some(1)}
          /\ exit_code = Some(1) <=> error # None
          /\ ~listening
          /\ pushed = <<>>
          /\ transcription = InitTranscription
          /\ console \in {<<>>, <<ListingHeader>>}
          /\ file = None
          /\ wrote = "none"

C14_Witness ==
    /\ pc = "exited"
    /\ exit_code = Some(1)
    /\ error # None
    /\ error.val.stage = "model"
    /\ acquired = {"queue", "recorder", "microphone"}

\* C15: a failed write of the output file during an update is absorbed: the
\* process keeps running, the transcript keeps the line just set, and the
\* loop goes on to the next poll; a failed write at shutdown still lets the
\* shutdown finish.
C15_WriteFailureAbsorbed ==
    /\ []( wrote = "failed" =>
             /\ exit_code = None
             /\ args.output_file
             /\ pc \in LoopPcs \cup ShutdownPcs )
    /\ [][ pc = "write" /\ wrote' = "failed" =>
             /\ pc' = "poll"
             /\ UNCHANGED << transcription, exit_code, listening >>
             /\ transcription[Len(transcription)] = text
         ]_vars
    /\ [][ pc = "final_write" /\ wrote' = "failed" =>
             /\ pc' = "done"
             /\ UNCHANGED << transcription, exit_code >>
         ]_vars

C15_Witness ==
    /\ pc = "transcribe"
    /\ wrote = "failed"
    /\ Len(transcription) = 2
    /\ transcription[2] = text
    /\ file = Some(<<>>)

\* C16: one call of clear_console issues exactly one clear command, 'cls'
\* through the shell on Windows and 'clear' otherwise; it prints nothing when
\* the command succeeds, and when the command is missing or fails it makes
\* exactly one print call, whose argument is 50 newline characters.
C16_ClearConsole ==
    pc = "clear_done" =>
        LET c == clear_call.val
            cmd == run_calls[Len(run_calls)]
        IN  /\ Len(run_calls) = c.runs + 1
            /\ cmd.args = IF os_name = "nt" THEN <<"cls">> ELSE <<"clear">>
            /\ cmd.shell <=> os_name = "nt"
            /\ c.outcome = "ok" => Len(print_calls) = c.prints
            /\ c.outcome # "ok" =>
                 /\ Len(print_calls) = c.prints + 1
                 /\ Len(print_calls[Len(print_calls)]) = 50
                 /\ \A i \in 1..50 : print_calls[Len(print_calls)][i] = "\n"

C16_Witness ==
    /\ pc = "clear_done"
    /\ os_name = "nt"
    /\ clear_call.val.outcome = "FileNotFoundError"
    /\ Len(run_calls) = 2
    /\ run_calls[1].args = <<"clear">>
    /\ Len(print_calls) = 1

\* C17: once a poll with data has detected a phrase boundary, the lines the
\* transcript held at that moment are closed: no later step changes any of
\* them, whether the boundary poll's transcription yields text, yields none
\* or fails.  Stated for the closed lines that hold text, so that a violation
\* is recognized text that a later poll overwrote.
C17_ClosedLinesKept ==
    [][ \A i \in 1..closed_lines :
           transcription[i] # <<>> =>
               /\ i <= Len(transcription')
               /\ transcription'[i] = transcription[i]
      ]_vars

\* C18: under every interleaving of puts with polls and drains the hand-off
\* loses, repeats and reorders nothing: the drain results so far, put end to
\* end, are a prefix of the bytes put so far; what is not yet returned is
\* exactly the rest, in the drain's list and then the queue; and no chunk has
\* bytes in two drain results.
IsPrefix(a, b) == Len(a) <= Len(b) /\ SubSeq(b, 1, Len(a)) = a

Values(seq) == { seq[i] : i \in 1..Len(seq) }

C18_HandOff ==
    /\ []( /\ IsPrefix(drained_bytes, ConcatBytes(pushed))
           /\ drained_bytes \o ConcatBytes(audio_data_list)
                \o ConcatBytes(data_queue) = ConcatBytes(pushed)
           /\ LET rest == audio_data_list \o data_queue IN
              /\ Len(rest) <= Len(pushed)
              /\ rest = SubSeq(pushed, Len(pushed) - Len(rest) + 1, Len(pushed)) )
    /\ [][ pc = "drain_ret" /\ pc' = "drained" =>
             /\ Values(drained_bytes) \cap Values(ResultBytes(audio_data')) = {}
             /\ drained_bytes' = drained_bytes \o ConcatBytes(audio_data_list)
         ]_vars

C18_Witness ==
    /\ caller = "main"
    /\ pc = "drain_check"
    /\ drained_bytes = <<1, 1>>
    /\ audio_data_list = << <<2, 2>> >>
    /\ data_queue = << <<3, 3>> >>

\* C19 (as stated): without an interrupt, every chunk that is put is
\* eventually drained and handed to a transcription call.
C19_AsStated ==
    \A n \in 1..MaxPush : ( Len(pushed) >= n ) ~> ( n \in handed )

\* C19 (amended): without an interrupt, every chunk that is put and holds
\* audio is eventually drained and handed to a transcription call, and after
\* an empty poll, a drain without audio, a failed transcription or a file
\* write the loop polls again.
C19_Liveness ==
    /\ \A n \in 1..MaxPush :
          ( Len(pushed) >= n /\ pushed[n] # <<>> ) ~> ( n \in handed )
    /\ ( pc \in {"sleep", "sleep_no_audio", "except", "write"} ) ~> ( pc = "poll" )

C19_Witness ==
    /\ caller = "main"
    /\ pc = "poll"
    /\ wrote = "failed"
    /\ Len(pushed) = 3
    /\ pushed[2] = <<>>
    /\ handed = {1, 3}
    /\ submitted = <<1, 1, 3, 3>>

\* C20: the main loop is the queue's only consumer, so a drain it calls
\* after seeing the queue non-empty never finds it empty and returns at least
\* one chunk, never None; the sleep after the drain is reached only when
\* every chunk of that drain has length zero.
C20_DrainAfterCheck ==
    caller = "main" =>
        /\ pc \in {"call_drain", "drain_get"} => data_queue # <<>>
        /\ pc = "drain_ret" => audio_data_list # <<>>
        /\ pc = "drained" => audio_data # None /\ LastDrainCount >= 1
        /\ pc = "sleep_no_audio" =>
             /\ audio_data = Some(<<>>)
             /\ LastDrainCount >= 1
             /\ \A i \in 1..LastDrainCount :
                   (queue_at_call \o pushed_during)[i] = <<>>

C20_Witness ==
    /\ caller = "main"
    /\ pc = "sleep_no_audio"
    /\ LastDrainCount = 2
    /\ Len(pushed_during) = 1
    /\ handed # {}

\* C21: only the first transcript element can be blank: every later element
\* is a non-empty recognized text, because the transcript changes only in an
\* update and an update is entered only with non-empty text (a poll whose
\* transcription yields empty text neither appends nor replaces); hence the
\* number of lines written to the output file is the transcript length or
\* the transcript length minus one.
LineCount(s) ==
    IF s = <<>> THEN 0
    ELSE 1 + Cardinality({ i \in 1..Len(s) : s[i] = "\n" })

C21_OnlyFirstBlank ==
    /\ []( /\ \A i \in 2..Len(transcription) :
                 transcription[i] # <<>> /\ Strip(transcription[i]) # <<>>
           /\ Len(NonBlankLines(transcription))
                 \in { Len(transcription), Len(transcription) - 1 }
           /\ wrote = "ok" =>
                 LineCount(file.val)
                   \in { Len(transcription), Len(transcription) - 1 } )
    /\ [][ /\ (pc = "transcribe" /\ pc' = "update") => text' # <<>>
           /\ (pc = "transcribe" /\ pc' = "poll") =>
                 text' = <<>> /\ transcription' = transcription
           /\ transcription' # transcription => pc = "update" /\ text # <<>>
         ]_vars

C21_Witness ==
    /\ caller = "main"
    /\ pc = "poll"
    /\ text = <<>>
    /\ handed = {1, 2, 3}
    /\ wrote = "ok"
    /\ Len(transcription) = 2
    /\ transcription[1] = <<>>
    /\ LineCount(file.val) = 1

====
